---------------------------- MODULE Spec2Model ----------------------------
(***************************************************************************)
(* SoftBank_StockCalculate.py as a state machine.                          *)
(*                                                                         *)
(*   calculate_inventory : order filter, initial stock, groupby            *)
(*                         aggregation and the day-by-day roll-forward     *)
(*   export_to_excel     : alias resolution (exclude, one-to-one,          *)
(*                         many-to-one) followed by the report file        *)
(*   main                : fetch -> calculate -> export, exit code         *)
(*                                                                         *)
(* A DataFrame is a function  column label -> (date -> value).  Dates are  *)
(* day offsets from start_date (0 is the first day of the month).         *)
(* Quantities are integers (piece counts held exactly by float64).         *)
(***************************************************************************)
EXTENDS Integers, Sequences, FiniteSets, TLC

VARIABLES
    pc,                 \* position of the program
    factory_data,       \* SoftBank_Data_FactoryShipment rows
    order_data,         \* SoftBank_Data_Orderinfo rows (as passed in)
    product_data,       \* SoftBank_Data_Productinfo rows
    valid_order_data,   \* order_data after the filter of lines 65-68
    products,           \* product_data['Part_No'].unique()
    clean_product_data, \* lines 82-83
    factory_agg,        \* line 113-116
    order_agg,          \* line 123-126
    inventory,          \* the balance matrix, mutated in place
    i,                  \* enumerate index of the day loop (line 132)
    k,                  \* position in the product loop / in a rule table
    previous,           \* <<m>>: matrix returned by the preceding run on the
                        \* same input (before a record was appended / rows swapped)
    raw,                \* the matrix as it entered export_to_excel
    excluded_df,        \* sheet Exclude
    one_to_one_df,      \* sheet OneToOne
    many_to_one_df,     \* sheet ManyToOne
    report_file,        \* what is on disk at full_path
    exit_code           \* <<>> while running, <<n>> once the process ended

vars == <<pc, factory_data, order_data, product_data, valid_order_data,
          products, clean_product_data, factory_agg, order_agg, inventory,
          i, k, previous, raw, excluded_df, one_to_one_df, many_to_one_df,
          report_file, exit_code>>

calcVars == <<valid_order_data, products, clean_product_data, factory_agg,
              order_agg, i>>
inputVars == <<factory_data, order_data, product_data>>
mappingVars == <<excluded_df, one_to_one_df, many_to_one_df>>
exportVars == <<report_file, exit_code>>

---------------------------------------------------------------------------
(* Bounds of the model *)

\* start_date + timedelta(days=Horizon): the program uses 180
Horizon == 2
\* rows of product_data
MaxProductRows == 2
\* rows of factory_data and order_data together
MaxEvents == 2
\* rows of the three mapping sheets together
MaxRules == 2

---------------------------------------------------------------------------
(* Generic helpers *)

SeqsUpTo(S, n) == UNION {[1..m -> S] : m \in 0..n}

Range(s) == {s[j] : j \in 1..Len(s)}

RECURSIVE SumOver(_, _)
\* sum of f[x] over the finite set S
SumOver(f, S) ==
    IF S = {} THEN 0
    ELSE LET x == CHOOSE y \in S : TRUE IN f[x] + SumOver(f, S \ {x})

EmptyFrame == [p \in {} |-> <<>>]

---------------------------------------------------------------------------
(* calculate_inventory *)

start_date == 0
end_date == start_date + Horizon
date_range == start_date..end_date

ExcludedStatuses == {"quotation", "cancel", "confirming", "double cancel"}

\* the filter with 'double cancel' left out of the status list
KeepOrderThreeStatuses(r) ==
    /\ r.Shipment_Date >= start_date
    /\ r.Quotation_status \notin {"quotation", "cancel", "confirming"}

\* lines 65-68: the boolean mask of the order filter
KeepOrder(r) ==
    /\ r.Shipment_Date >= start_date
    /\ r.Quotation_status \notin ExcludedStatuses

FilterOrders(rows) == SelectSeq(rows, KeepOrder)

RECURSIVE UniqueFrom(_, _)
UniqueFrom(s, seen) ==
    IF s = <<>> THEN <<>>
    ELSE IF Head(s) \in seen THEN UniqueFrom(Tail(s), seen)
    ELSE <<Head(s)>> \o UniqueFrom(Tail(s), seen \cup {Head(s)})

\* line 71: Series.unique(), order of first appearance
Unique(s) == UniqueFrom(s, {})

PartNos(rows) == [j \in 1..Len(rows) |-> rows[j].Part_No]

\* line 75: DataFrame(index=date_range, columns=products, data=0.0)
ZeroFrame(cols) == [p \in cols |-> [d \in date_range |-> 0]]

NotNa(r) == r.Month_End_SAP_Inventory.kind # "null"

\* line 82: dropna(subset=[...])
DropNa(rows) == SelectSeq(rows, NotNa)

RECURSIVE KeepFirstFrom(_, _)
KeepFirstFrom(rows, seen) ==
    IF rows = <<>> THEN <<>>
    ELSE IF Head(rows).Part_No \in seen THEN KeepFirstFrom(Tail(rows), seen)
    ELSE <<Head(rows)>>
            \o KeepFirstFrom(Tail(rows), seen \cup {Head(rows).Part_No})

RECURSIVE KeepLastFrom(_)
KeepLastFrom(rows) ==
    IF rows = <<>> THEN <<>>
    ELSE IF \E j \in 2..Len(rows) : rows[j].Part_No = Head(rows).Part_No
         THEN KeepLastFrom(Tail(rows))
         ELSE <<Head(rows)>> \o KeepLastFrom(Tail(rows))

\* drop_duplicates with keep='last'
DropDuplicatesKeepLast(rows) == KeepLastFrom(rows)

\* line 83: drop_duplicates(subset=['Part_No'], keep='first')
DropDuplicates(rows) == KeepFirstFrom(rows, {})

\* float(x): a number converts, any other text raises ValueError
ToFloat(q) ==
    IF q.kind = "num" THEN [raised |-> FALSE, val |-> q.val]
    ELSE [raised |-> TRUE, val |-> 0]

\* the conversion without the try/except around float()
InitialQtyUncaught(clean, product) ==
    LET matching_rows == SelectSeq(clean, LAMBDA r : r.Part_No = product)
    IN  IF Len(matching_rows) > 0
        THEN ToFloat(matching_rows[1].Month_End_SAP_Inventory)
        ELSE [raised |-> FALSE, val |-> 0]

\* lines 89-100: the value written to inventory.loc[start_date, product];
\* the except clause turns ValueError/TypeError into 0.0
InitialQty(clean, product) ==
    LET matching_rows == SelectSeq(clean, LAMBDA r : r.Part_No = product)
    IN  IF Len(matching_rows) > 0
        THEN LET initial_qty == matching_rows[1].Month_End_SAP_Inventory
                 f == IF initial_qty.kind # "null" THEN ToFloat(initial_qty)
                      ELSE [raised |-> FALSE, val |-> 0]
             IN  IF f.raised THEN [raised |-> FALSE, val |-> 0] ELSE f
        ELSE [raised |-> FALSE, val |-> 0]

\* line 109: factory_data[factory_data['Part_No'].isin(products)]
ValidFactory(rows, prods) ==
    SelectSeq(rows, LAMBDA r : r.Part_No \in Range(prods))

\* the (date, part, quantity) columns the groupby reads
FactoryEvents(rows) ==
    [j \in 1..Len(rows) |-> [date |-> rows[j].eta_FLTC,
                             part |-> rows[j].Part_No,
                             qty  |-> rows[j].Qty]]

OrderEvents(rows) ==
    [j \in 1..Len(rows) |-> [date |-> rows[j].Shipment_Date,
                             part |-> rows[j].Product_Name,
                             qty  |-> rows[j].Quantity]]

\* groupby([date, part])[qty].sum(): one entry per key that occurs
GroupKeys(events) == {<<events[j].date, events[j].part>> : j \in 1..Len(events)}

RECURSIVE GroupSum(_, _)
GroupSum(events, key) ==
    IF events = <<>> THEN 0
    ELSE (IF <<Head(events).date, Head(events).part>> = key
          THEN Head(events).qty ELSE 0)
         + GroupSum(Tail(events), key)

\* lines 112-116 and 122-126: groupby-sum, unstack(fill_value=0), then
\* reindex(columns=products, index=date_range, fill_value=0); an empty
\* input gives the all-zero frame
Aggregate(events, prods) ==
    IF events = <<>> THEN ZeroFrame(Range(prods))
    ELSE LET keys == GroupKeys(events)
         IN  [p \in Range(prods) |-> [d \in date_range |->
                IF <<d, p>> \in keys THEN GroupSum(events, <<d, p>>) ELSE 0]]

\* every day computed from the start row
BaseRowFirstDay(d) == start_date

\* lines 133-143: the row today's movements are added to: the first day
\* uses its own row, every later day the row of the day before
BaseRow(d) == IF d = start_date THEN d ELSE d - 1

\* lines 137 / 143: inventory.loc[current_date] = base + daily_in - daily_out
RollDay(inv, fagg, oagg, d) ==
    [p \in DOMAIN inv |->
        [inv[p] EXCEPT ![d] = inv[p][BaseRow(d)] + fagg[p][d] - oagg[p][d]]]

---------------------------------------------------------------------------
(* Inputs of calculate_inventory *)

CalcParts == {"A", "B"}

\* Month-End_SAP_Inventory: NULL, text that float() rejects, or a number
StartQtys == {[kind |-> "null", val |-> 0],
              [kind |-> "text", val |-> 0],
              [kind |-> "num",  val |-> 5]}

ProductRecs == [Part_No : CalcParts, Month_End_SAP_Inventory : StartQtys]

\* the day before the window, its first two days, its last day, the day after
RecDates == {start_date - 1, start_date, start_date + 1, end_date, end_date + 1}

FactoryRecs == [Part_No : CalcParts, eta_FLTC : RecDates, Qty : {2}]

OrderRecs == [Product_Name : CalcParts, Shipment_Date : RecDates,
              Quantity : {1}, Quotation_status : {"ordered", "cancel"}]

\* many product tables, movements on the start date only
StockInputs ==
    [product_data : SeqsUpTo(ProductRecs, MaxProductRows) \ {<<>>},
     factory_data : SeqsUpTo([Part_No : {"A"}, eta_FLTC : {start_date},
                              Qty : {2}], 1),
     order_data   : SeqsUpTo([Product_Name : {"A"}, Shipment_Date : {start_date},
                              Quantity : {1}, Quotation_status : {"ordered"}], 1)]

\* two product tables, every table of at most MaxEvents movements
RollInputs ==
    UNION {[product_data : {<<[Part_No |-> "A",
                               Month_End_SAP_Inventory |-> [kind |-> "num", val |-> 5]]>>,
                            <<[Part_No |-> "B",
                               Month_End_SAP_Inventory |-> [kind |-> "null", val |-> 0]],
                              [Part_No |-> "A",
                               Month_End_SAP_Inventory |-> [kind |-> "num", val |-> 5]]>>},
            factory_data : [1..n[1] -> FactoryRecs],
            order_data   : [1..n[2] -> OrderRecs]] :
        n \in {t \in (0..MaxEvents) \X (0..MaxEvents) : t[1] + t[2] <= MaxEvents}}

CalcInputs == StockInputs \cup RollInputs

\* order records that are no demand: one of the four rejected statuses dated
\* inside the window, or a valid status dated before the start
RejectedOrderRecs ==
    {r \in [Product_Name : {"A"}, Shipment_Date : {start_date - 1, start_date + 1},
            Quantity : {1},
            Quotation_status : {"quotation", "cancel", "confirming",
                                "double cancel", "ordered"}] :
        \/ r.Quotation_status # "ordered" /\ r.Shipment_Date = start_date + 1
        \/ r.Quotation_status = "ordered" /\ r.Shipment_Date < start_date}

---------------------------------------------------------------------------
(* State of a run that has not reached a given stage yet *)

NoCalcState ==
    /\ valid_order_data = <<>>
    /\ products = <<>>
    /\ clean_product_data = <<>>
    /\ factory_agg = EmptyFrame
    /\ order_agg = EmptyFrame
    /\ inventory = EmptyFrame
    /\ i = 0
    /\ k = 1

NoExportState ==
    /\ raw = EmptyFrame
    /\ excluded_df = <<>>
    /\ one_to_one_df = <<>>
    /\ many_to_one_df = <<>>
    /\ report_file = "absent"
    /\ exit_code = <<>>

\* calculate_inventory has just been called on some fetched tables
InitCalc ==
    /\ pc = "clean"
    /\ \E x \in CalcInputs :
          /\ product_data = x.product_data
          /\ factory_data = x.factory_data
          /\ order_data = x.order_data
    /\ previous = <<>>
    /\ NoCalcState
    /\ NoExportState

---------------------------------------------------------------------------
(* Actions of calculate_inventory *)

\* lines 54-83: filter the orders, list the products, create the zero
\* matrix, clean product_data
Clean ==
    /\ pc = "clean"
    /\ valid_order_data' = FilterOrders(order_data)
    /\ products' = Unique(PartNos(product_data))
    /\ inventory' = ZeroFrame(Range(Unique(PartNos(product_data))))
    /\ clean_product_data' = DropDuplicates(DropNa(product_data))
    /\ k' = 1
    /\ pc' = "init_stock"
    /\ UNCHANGED <<inputVars, factory_agg, order_agg, i, previous, raw,
                   mappingVars, exportVars>>

\* lines 88-100: one iteration of `for product in products`
SetInitialStock ==
    /\ pc = "init_stock"
    /\ k <= Len(products)
    /\ LET q == InitialQty(clean_product_data, products[k])
       IN  IF q.raised
           THEN /\ pc' = "raised"
                /\ UNCHANGED <<inventory, k>>
           ELSE /\ inventory' = [inventory EXCEPT ![products[k]][start_date] = q.val]
                /\ k' = k + 1
                /\ pc' = pc
    /\ UNCHANGED <<inputVars, calcVars, previous, raw, mappingVars, exportVars>>

\* lines 109-126: the two groupby aggregations
AggregateMovements ==
    /\ pc = "init_stock"
    /\ k > Len(products)
    /\ factory_agg' = Aggregate(FactoryEvents(ValidFactory(factory_data, products)),
                                products)
    /\ order_agg' = Aggregate(OrderEvents(valid_order_data), products)
    /\ i' = 0
    /\ pc' = "roll"
    /\ UNCHANGED <<inputVars, valid_order_data, products, clean_product_data,
                   inventory, k, previous, raw, mappingVars, exportVars>>

\* lines 132-143: one iteration of `for i, current_date in enumerate(date_range)`
RollForward ==
    /\ pc = "roll"
    /\ i <= Horizon
    /\ inventory' = RollDay(inventory, factory_agg, order_agg, start_date + i)
    /\ i' = i + 1
    /\ UNCHANGED <<pc, inputVars, valid_order_data, products, clean_product_data,
                   factory_agg, order_agg, k, previous, raw, mappingVars,
                   exportVars>>

\* line 147: return inventory
Return ==
    /\ pc = "roll"
    /\ i > Horizon
    /\ pc' = "returned"
    /\ UNCHANGED <<inputVars, calcVars, inventory, k, previous, raw,
                   mappingVars, exportVars>>

\* calculate_inventory is called again on the same tables with one more
\* order record, one that the filter rejects; the matrix just returned is kept
RerunWithRejectedOrder ==
    /\ pc = "returned"
    /\ Len(factory_data) + Len(order_data) < MaxEvents
    /\ \E r \in RejectedOrderRecs : order_data' = Append(order_data, r)
    /\ previous' = <<inventory>>
    /\ pc' = "clean"
    /\ valid_order_data' = <<>>
    /\ products' = <<>>
    /\ clean_product_data' = <<>>
    /\ factory_agg' = EmptyFrame
    /\ order_agg' = EmptyFrame
    /\ inventory' = EmptyFrame
    /\ i' = 0
    /\ k' = 1
    /\ UNCHANGED <<factory_data, product_data, raw, mappingVars, exportVars>>

NextCalc ==
    \/ Clean
    \/ SetInitialStock
    \/ AggregateMovements
    \/ RollForward
    \/ Return
    \/ RerunWithRejectedOrder

SpecCalc == InitCalc /\ [][NextCalc]_vars

---------------------------------------------------------------------------
(* Properties of calculate_inventory *)

\* summed shipment quantity of the raw factory table for (d, p)
Inbound(d, p) ==
    LET J == {j \in 1..Len(factory_data) :
                 factory_data[j].eta_FLTC = d /\ factory_data[j].Part_No = p}
    IN  SumOver([j \in J |-> factory_data[j].Qty], J)

\* summed quantity of the raw order table for (d, p), demand only
Outbound(d, p) ==
    LET J == {j \in 1..Len(order_data) :
                 /\ order_data[j].Shipment_Date = d
                 /\ order_data[j].Product_Name = p
                 /\ order_data[j].Quotation_status \notin
                        {"quotation", "cancel", "confirming", "double cancel"}}
    IN  SumOver([j \in J |-> order_data[j].Quantity], J)

KnownParts == {product_data[j].Part_No : j \in 1..Len(product_data)}

RecordsOf(p) == {j \in 1..Len(product_data) : product_data[j].Part_No = p}

\* a starting-quantity cell read as a number: 0 when missing or non-numeric
NumOrZero(q) == IF q.kind = "num" THEN q.val ELSE 0

MinOf(S) == CHOOSE x \in S : \A y \in S : x <= y

\* the day loop has handled dates start_date .. start_date + i - 1
RollStarted == pc \in {"roll", "returned"}

\* the initial stock is set and no movement has been applied yet
StockSet ==
    \/ pc = "init_stock" /\ k > Len(products)
    \/ pc = "roll" /\ i = 0

\* C1: for every date d after the start date that the day loop has handled
\* and every known part p, balance(d, p) = balance(d-1, p) + inbound(d, p)
\* - outbound(d, p); the loop handles the dates in ascending order without
\* skipping one, so the rows of the dates not handled yet are still zero.
C1_RollForwardRecurrence ==
    RollStarted =>
        /\ DOMAIN inventory = KnownParts
        /\ \A p \in KnownParts : \A d \in date_range \ {start_date} :
              IF d < start_date + i
              THEN inventory[p][d] =
                       inventory[p][d - 1] + Inbound(d, p) - Outbound(d, p)
              ELSE inventory[p][d] = 0

\* a finished run with a part that has both a shipment and a valid order on
\* one date after the start date, and another movement the day before
C1_Witness ==
    /\ pc = "returned"
    /\ \E p \in KnownParts : \E d \in date_range \ {start_date} :
          /\ Inbound(d, p) + Outbound(d, p) > 0
          /\ Inbound(d - 1, p) + Outbound(d - 1, p) > 0
          /\ d - 1 > start_date

\* C5: once the start date is handled, balance(start, p) of every known part
\* is p's starting quantity (0 when missing or non-numeric) plus
\* inbound(start, p) minus outbound(start, p), and no error was raised.
C5_StartBalance ==
    /\ pc # "raised"
    /\ (RollStarted /\ i >= 1) =>
          \A p \in KnownParts :
              inventory[p][start_date] - Inbound(start_date, p)
                                       + Outbound(start_date, p)
                  \in {NumOrZero(product_data[j].Month_End_SAP_Inventory) :
                          j \in RecordsOf(p)}

\* a finished run where a part with a single, non-numeric starting quantity
\* has a shipment and an order on the start date
C5_Witness ==
    /\ pc = "returned"
    /\ \E p \in KnownParts :
          /\ Cardinality(RecordsOf(p)) = 1
          /\ \A j \in RecordsOf(p) :
                product_data[j].Month_End_SAP_Inventory.kind = "text"
          /\ Inbound(start_date, p) > 0
          /\ Outbound(start_date, p) > 0
          /\ inventory[p][start_date] = 1

\* C6: a run on the same tables with one more order record that is a
\* quotation, cancel, confirming or double cancel, or is dated before the
\* start, returns the matrix the run before it returned, cell for cell.
C6_RejectedOrdersChangeNothing ==
    (pc = "returned" /\ previous # <<>>) => inventory = previous[1]

\* a second run has returned; the appended record is a double cancel dated
\* inside the window for a known part that also has a valid order
C6_Witness ==
    /\ pc = "returned"
    /\ previous # <<>>
    /\ LET r == order_data[Len(order_data)]
       IN  /\ r.Quotation_status = "double cancel"
           /\ r.Shipment_Date \in date_range
           /\ r.Product_Name \in KnownParts
           /\ \E d \in date_range : Outbound(d, r.Product_Name) > 0

\* C9 as stated: the first record of a part in input order fixes
\* balance(start, p) before inbound/outbound, a missing or non-numeric
\* quantity in it counting as 0.
C9_FirstRecordWins ==
    StockSet =>
        \A p \in KnownParts :
            inventory[p][start_date] =
                NumOrZero(product_data[MinOf(RecordsOf(p))].Month_End_SAP_Inventory)

\* C9 amended: the first record of a part whose quantity is not missing fixes
\* balance(start, p) before inbound/outbound (non-numeric counting as 0, and
\* 0 when every record of the part lacks a quantity); records with a missing
\* quantity are skipped and the other records of the part are ignored.
C9_FirstRecordWithQuantityWins ==
    StockSet =>
        \A p \in KnownParts :
            LET J == {j \in RecordsOf(p) :
                         product_data[j].Month_End_SAP_Inventory.kind # "null"}
            IN  inventory[p][start_date] =
                    IF J = {} THEN 0
                    ELSE NumOrZero(product_data[MinOf(J)].Month_End_SAP_Inventory)

\* the stock is set for a part whose first record has no quantity and whose
\* second record has a number
C9_Witness ==
    /\ StockSet
    /\ \E p \in KnownParts : \E j1, j2 \in RecordsOf(p) :
          /\ j1 = MinOf(RecordsOf(p))
          /\ j1 < j2
          /\ product_data[j1].Month_End_SAP_Inventory.kind = "null"
          /\ product_data[j2].Month_End_SAP_Inventory.kind = "num"
          /\ inventory[p][start_date] = product_data[j2].Month_End_SAP_Inventory.val

---------------------------------------------------------------------------
(* export_to_excel: alias resolution *)

\* the result of a step that may raise KeyError
Ok(frame) == [raised |-> FALSE, frame |-> frame]
KeyError(frame) == [raised |-> TRUE, frame |-> frame]

\* Series + Series, aligned on the date index
AddSeries(s, t) == [d \in DOMAIN s |-> s[d] + t[d]]

\* DataFrame.drop(columns=[col], errors='ignore')
DropIgnore(inv, col) == [c \in DOMAIN inv \ {col} |-> inv[c]]

\* DataFrame.rename(columns={old: new}); used only when `new` is absent
Rename(inv, old, new) ==
    [c \in (DOMAIN inv \ {old}) \cup {new} |->
        IF c = new THEN inv[old] ELSE inv[c]]

\* inventory[col] = series
SetColumn(inv, col, series) ==
    [c \in DOMAIN inv \cup {col} |-> IF c = col THEN series ELSE inv[c]]

\* line 165: excluded_df['Excluded_Part_No'].dropna().tolist()
ExcludedParts(df) == SelectSeq(df, LAMBDA c : c # "NaN")

\* lines 167-168: one iteration of the exclusion loop
ExcludeRule(inv, part_no) ==
    IF part_no \in DOMAIN inv
    THEN Ok(DropIgnore(inv, part_no))
    ELSE Ok(inv)

\* lines 173-179: one iteration of the one-to-one loop
OneToOneRule(inv, free_part, main_part) ==
    IF free_part \in DOMAIN inv
    THEN Ok(DropIgnore(
            IF main_part \in DOMAIN inv
            THEN [inv EXCEPT ![main_part] = AddSeries(inv[main_part], inv[free_part])]
            ELSE Rename(inv, free_part, main_part),
            free_part))
    ELSE Ok(inv)

\* the inner loop without `if alias_part in inventory.columns`
ManyToOneRuleUnguarded(inv, main_part, alias_part) ==
    IF alias_part \notin DOMAIN inv THEN KeyError(inv)
    ELSE Ok(DropIgnore(
            IF main_part \in DOMAIN inv
            THEN [inv EXCEPT ![main_part] = AddSeries(inv[main_part], inv[alias_part])]
            ELSE SetColumn(inv, main_part, inv[alias_part]),
            alias_part))

\* the inner loop assigning the alias series instead of adding it
ManyToOneRuleOverwrite(inv, main_part, alias_part) ==
    IF alias_part \in DOMAIN inv
    THEN Ok(DropIgnore(SetColumn(inv, main_part, inv[alias_part]), alias_part))
    ELSE Ok(inv)

\* lines 183-189: one iteration of the inner many-to-one loop
ManyToOneRule(inv, main_part, alias_part) ==
    IF alias_part \in DOMAIN inv
    THEN Ok(DropIgnore(
            IF main_part \in DOMAIN inv
            THEN [inv EXCEPT ![main_part] = AddSeries(inv[main_part], inv[alias_part])]
            ELSE SetColumn(inv, main_part, inv[alias_part]),
            alias_part))
    ELSE Ok(inv)

AliasParts == {"A", "B", "M"}

\* the order of the part numbers as strings
PartRank == [p \in AliasParts |-> CASE p = "A" -> 1 [] p = "B" -> 2 [] p = "M" -> 3]

RECURSIVE GroupsInKeyOrder(_, _)
GroupsInKeyOrder(rows, mains) ==
    IF mains = {} THEN <<>>
    ELSE LET m == CHOOSE x \in mains : \A y \in mains : PartRank[x] <= PartRank[y]
         IN  SelectSeq(rows, LAMBDA r : r.Main_Part_No = m)
                \o GroupsInKeyOrder(rows, mains \ {m})

\* line 182-183: groupby('Main_Part_No') yields the groups by ascending key,
\* each with its rows in sheet order; the rows in the order they are handled
ManyToOneOrder(rows) ==
    GroupsInKeyOrder(rows, {rows[j].Main_Part_No : j \in 1..Len(rows)})

---------------------------------------------------------------------------
(* Inputs of the alias resolution *)

\* a distinct series per part, so that a sum shows which columns went into it
Weight == [p \in AliasParts |-> CASE p = "A" -> 1 [] p = "B" -> -10 [] p = "M" -> 100]

RawFrames ==
    {[c \in S |-> [d \in date_range |-> Weight[c] * (d + 1)]] : S \in SUBSET AliasParts}

OneToOneRows == [Free_Part_No : AliasParts, Main_Part_No : AliasParts]
ManyToOneRows == [Main_Part_No : AliasParts, Alias_Part_No : AliasParts]

\* every part_mapping.xlsx with at most MaxRules rows over its three sheets
Mappings ==
    UNION {[excluded_df    : [1..n[1] -> AliasParts \cup {"NaN"}],
            one_to_one_df  : [1..n[2] -> OneToOneRows],
            many_to_one_df : [1..n[3] -> ManyToOneRows]] :
        n \in {t \in (0..MaxRules) \X (0..MaxRules) \X (0..MaxRules) :
                  t[1] + t[2] + t[3] <= MaxRules}}

\* export_to_excel has read the three sheets (lines 159-162)
InitAlias ==
    /\ pc = "exclude"
    /\ inventory \in RawFrames
    /\ raw = inventory
    /\ \E x \in Mappings :
          /\ excluded_df = x.excluded_df
          /\ one_to_one_df = x.one_to_one_df
          /\ many_to_one_df = x.many_to_one_df
    /\ k = 1
    /\ previous = <<>>
    /\ factory_data = <<>>
    /\ order_data = <<>>
    /\ product_data = <<>>
    /\ valid_order_data = <<>>
    /\ products = <<>>
    /\ clean_product_data = <<>>
    /\ factory_agg = EmptyFrame
    /\ order_agg = EmptyFrame
    /\ i = Horizon + 1
    /\ report_file = "absent"
    /\ exit_code = <<>>

---------------------------------------------------------------------------
(* Actions of the alias resolution *)

\* a rule step: the matrix is replaced, or KeyError leaves the loop
ApplyRule(result) ==
    IF result.raised
    THEN /\ pc' = "raised"
         /\ UNCHANGED <<inventory, k>>
    ELSE /\ inventory' = result.frame
         /\ k' = k + 1
         /\ pc' = pc

\* lines 166-169: one iteration of `for part_no in excluded_parts`
ExcludeStep ==
    /\ pc = "exclude"
    /\ k <= Len(ExcludedParts(excluded_df))
    /\ ApplyRule(ExcludeRule(inventory, ExcludedParts(excluded_df)[k]))
    /\ UNCHANGED <<inputVars, calcVars, previous, raw, mappingVars, exportVars>>

ExcludeDone ==
    /\ pc = "exclude"
    /\ k > Len(ExcludedParts(excluded_df))
    /\ pc' = "one_to_one"
    /\ k' = 1
    /\ UNCHANGED <<inputVars, calcVars, inventory, previous, raw, mappingVars,
                   exportVars>>

\* lines 172-179: one iteration of `for _, row in one_to_one_df.iterrows()`
OneToOneStep ==
    /\ pc = "one_to_one"
    /\ k <= Len(one_to_one_df)
    /\ ApplyRule(OneToOneRule(inventory, one_to_one_df[k].Free_Part_No,
                              one_to_one_df[k].Main_Part_No))
    /\ UNCHANGED <<inputVars, calcVars, previous, raw, mappingVars, exportVars>>

OneToOneDone ==
    /\ pc = "one_to_one"
    /\ k > Len(one_to_one_df)
    /\ pc' = "many_to_one"
    /\ k' = 1
    /\ UNCHANGED <<inputVars, calcVars, inventory, previous, raw, mappingVars,
                   exportVars>>

\* lines 182-189: one iteration of the inner loop `for alias_part in ...`
ManyToOneStep ==
    /\ pc = "many_to_one"
    /\ k <= Len(many_to_one_df)
    /\ LET row == ManyToOneOrder(many_to_one_df)[k]
       IN  ApplyRule(ManyToOneRule(inventory, row.Main_Part_No, row.Alias_Part_No))
    /\ UNCHANGED <<inputVars, calcVars, previous, raw, mappingVars, exportVars>>

ManyToOneDone ==
    /\ pc = "many_to_one"
    /\ k > Len(many_to_one_df)
    /\ pc' = "resolved"
    /\ UNCHANGED <<inputVars, calcVars, inventory, k, previous, raw, mappingVars,
                   exportVars>>

SwapRows(rows, j1, j2) ==
    [j \in 1..Len(rows) |-> IF j = j1 THEN rows[j2]
                            ELSE IF j = j2 THEN rows[j1] ELSE rows[j]]

\* the resolution is run again on the same matrix and sheets, with two alias
\* rows of one main part listed in the other order; the resolved matrix of
\* the first run is kept
ResolveAgainSwapped ==
    /\ pc = "resolved"
    /\ previous = <<>>
    /\ \E j1, j2 \in 1..Len(many_to_one_df) :
          /\ j1 < j2
          /\ many_to_one_df[j1].Main_Part_No = many_to_one_df[j2].Main_Part_No
          /\ many_to_one_df[j1].Alias_Part_No # many_to_one_df[j2].Alias_Part_No
          /\ \A j \in 1..Len(many_to_one_df) :
                many_to_one_df[j].Main_Part_No = many_to_one_df[j1].Main_Part_No
                    => many_to_one_df[j].Alias_Part_No # many_to_one_df[j].Main_Part_No
          /\ many_to_one_df' = SwapRows(many_to_one_df, j1, j2)
    /\ previous' = <<inventory>>
    /\ inventory' = raw
    /\ pc' = "exclude"
    /\ k' = 1
    /\ UNCHANGED <<inputVars, calcVars, raw, excluded_df, one_to_one_df, exportVars>>

NextAlias ==
    \/ ExcludeStep
    \/ ExcludeDone
    \/ OneToOneStep
    \/ OneToOneDone
    \/ ManyToOneStep
    \/ ManyToOneDone
    \/ ResolveAgainSwapped

SpecAlias == InitAlias /\ [][NextAlias]_vars

---------------------------------------------------------------------------
(* Properties of the alias resolution *)

ExcludeSet == {c \in Range(excluded_df) : c # "NaN"}

\* the matrix as it enters the one-to-one step: raw without the columns the
\* exclusion step drops
AfterExclusion == [c \in DOMAIN raw \ ExcludeSet |-> raw[c]]

\* <<free or alias part, main part>> of every row of the two merge sheets
MergeEdges ==
    {<<one_to_one_df[j].Free_Part_No, one_to_one_df[j].Main_Part_No>> :
        j \in 1..Len(one_to_one_df)}
    \cup
    {<<many_to_one_df[j].Alias_Part_No, many_to_one_df[j].Main_Part_No>> :
        j \in 1..Len(many_to_one_df)}

MainParts == {e[2] : e \in MergeEdges}
FreeParts == {e[1] : e \in MergeEdges}

RECURSIVE ReachesIn(_, _, _)
\* p folds into m through at most n rules
ReachesIn(p, m, n) ==
    /\ n > 0
    /\ \/ <<p, m>> \in MergeEdges
       \/ \E q \in AliasParts : <<p, q>> \in MergeEdges /\ ReachesIn(q, m, n - 1)

Reaches(p, m) == ReachesIn(p, m, Cardinality(AliasParts))

\* no part folds into itself, directly or through a chain, and no free or
\* alias part is given two different main parts
UnambiguousRules ==
    /\ \A p \in AliasParts : ~Reaches(p, p)
    /\ \A e1, e2 \in MergeEdges : e1[1] = e2[1] => e1[2] = e2[2]

\* the columns present at the merge steps that fold into m
Contributors(m) == {p \in DOMAIN AfterExclusion : p # m /\ Reaches(p, m)}

ColumnSum(inv, d) == SumOver([c \in DOMAIN inv |-> inv[c][d]], DOMAIN inv)

\* C2: in the resolved matrix no column is named by a part number of the
\* Exclude sheet, also when that part number is the main part of a rule.
C2_NoExcludedColumn ==
    pc = "resolved" => DOMAIN inventory \cap ExcludeSet = {}

\* C3: in the resolved matrix every main part column equals, on every date,
\* its own series at the merge steps (if present) plus the series of all the
\* free/alias columns that fold into it, and no column named as a free or
\* alias part remains; stated for the rule tables in which every free/alias
\* part has one main part and no part folds into itself, in any row order,
\* chained rules included.
C3_MainIsSumOfContributors ==
    (pc = "resolved" /\ UnambiguousRules) =>
        /\ \A m \in MainParts \cap DOMAIN inventory : \A d \in date_range :
              inventory[m][d] =
                  (IF m \in DOMAIN AfterExclusion THEN AfterExclusion[m][d] ELSE 0)
                  + SumOver([p \in Contributors(m) |-> AfterExclusion[p][d]],
                            Contributors(m))
        /\ FreeParts \cap DOMAIN inventory = {}

\* C7: listing two alias rows of one main part in the other order gives the
\* same resolved matrix, hence the same values of the main part on every date.
C7_AliasOrderIrrelevant ==
    (pc = "resolved" /\ previous # <<>>) => inventory = previous[1]

\* both orders are resolved; the main part was absent, both aliases present
\* and the first alias found seeded the main column
C7_Witness ==
    /\ pc = "resolved"
    /\ previous # <<>>
    /\ Len(many_to_one_df) = 2
    /\ LET m == many_to_one_df[1].Main_Part_No
           a == many_to_one_df[1].Alias_Part_No
           b == many_to_one_df[2].Alias_Part_No
       IN  /\ m \notin DOMAIN AfterExclusion
           /\ {a, b} \subseteq DOMAIN AfterExclusion
           /\ a # b
           /\ m \in DOMAIN inventory
           /\ \A d \in date_range :
                 inventory[m][d] = AfterExclusion[a][d] + AfterExclusion[b][d]

\* the rule about to be handled names a column that is not in the matrix
RuleOnAbsentColumn ==
    \/ /\ pc = "exclude"
       /\ k <= Len(ExcludedParts(excluded_df))
       /\ ExcludedParts(excluded_df)[k] \notin DOMAIN inventory
    \/ /\ pc = "one_to_one"
       /\ k <= Len(one_to_one_df)
       /\ one_to_one_df[k].Free_Part_No \notin DOMAIN inventory
    \/ /\ pc = "many_to_one"
       /\ k <= Len(many_to_one_df)
       /\ ManyToOneOrder(many_to_one_df)[k].Alias_Part_No \notin DOMAIN inventory

\* C8: handling a rule whose referenced column is absent from the current
\* matrix raises no error and leaves every column and value unchanged.
C8_AbsentColumnIsNoOp ==
    [][RuleOnAbsentColumn => (inventory' = inventory /\ pc' # "raised")]_vars

\* the first one-to-one row has been handled; its free part was a column of
\* the raw matrix that the exclusion step had removed, its main part is a
\* column, and the matrix is still the one the exclusion step left
C8_Witness ==
    /\ pc = "one_to_one"
    /\ k = 2
    /\ one_to_one_df[1].Free_Part_No \in DOMAIN raw \cap ExcludeSet
    /\ one_to_one_df[1].Main_Part_No \in DOMAIN inventory
    /\ one_to_one_df[1].Main_Part_No # one_to_one_df[1].Free_Part_No
    /\ inventory = AfterExclusion

\* C10: on every date the columns of the resolved matrix add up to what the
\* columns of the input matrix other than the excluded ones add up to.
C10_QuantityConserved ==
    pc = "resolved" =>
        \A d \in date_range : ColumnSum(inventory, d) = ColumnSum(AfterExclusion, d)

---------------------------------------------------------------------------
(* main: fetch, calculate, export *)

\* tables fetch_data may return in a whole run
RunInputs ==
    {[product_data |-> <<[Part_No |-> "A",
                          Month_End_SAP_Inventory |-> [kind |-> "num", val |-> 5]],
                         [Part_No |-> "B",
                          Month_End_SAP_Inventory |-> [kind |-> "text", val |-> 0]]>>,
      factory_data |-> <<[Part_No |-> "A", eta_FLTC |-> start_date + 1, Qty |-> 2]>>,
      order_data   |-> <<[Product_Name |-> "B", Shipment_Date |-> start_date,
                           Quantity |-> 1, Quotation_status |-> "ordered"]>>],
     [product_data |-> <<[Part_No |-> "B",
                          Month_End_SAP_Inventory |-> [kind |-> "null", val |-> 0]]>>,
      factory_data |-> <<>>,
      order_data   |-> <<[Product_Name |-> "B", Shipment_Date |-> end_date,
                           Quantity |-> 1, Quotation_status |-> "cancel"]>>]}

\* mapping workbooks read in a whole run
RunMappings ==
    {[excluded_df    |-> <<>>,
      one_to_one_df  |-> <<>>,
      many_to_one_df |-> <<>>],
     [excluded_df    |-> <<"M", "NaN">>,
      one_to_one_df  |-> <<[Free_Part_No |-> "B", Main_Part_No |-> "A"]>>,
      many_to_one_df |-> <<[Main_Part_No |-> "M", Alias_Part_No |-> "A"]>>]}

\* the process has started and nothing has been fetched
InitRun ==
    /\ pc = "fetch"
    /\ factory_data = <<>>
    /\ order_data = <<>>
    /\ product_data = <<>>
    /\ previous = <<>>
    /\ NoCalcState
    /\ NoExportState

\* lines 276-279 (36-47): the three tables are read
Fetch ==
    /\ pc = "fetch"
    /\ \E x \in RunInputs :
          /\ product_data' = x.product_data
          /\ factory_data' = x.factory_data
          /\ order_data' = x.order_data
    /\ pc' = "clean"
    /\ UNCHANGED <<calcVars, inventory, k, previous, raw, mappingVars, exportVars>>

\* line 285 and lines 159-162: export_to_excel is called with the returned
\* matrix and reads the three mapping sheets
ReadMapping ==
    /\ pc = "returned"
    /\ \E x \in RunMappings :
          /\ excluded_df' = x.excluded_df
          /\ one_to_one_df' = x.one_to_one_df
          /\ many_to_one_df' = x.many_to_one_df
    /\ raw' = inventory
    /\ k' = 1
    /\ pc' = "exclude"
    /\ UNCHANGED <<inputVars, calcVars, inventory, previous, exportVars>>

\* lines 192-202: transpose, insert Model, to_excel(full_path) writes the file
WriteSheet ==
    /\ pc = "resolved"
    /\ report_file' = "unformatted"
    /\ pc' = "load_workbook"
    /\ UNCHANGED <<inputVars, calcVars, inventory, k, previous, raw, mappingVars,
                   exit_code>>

\* lines 203-264: the written file is loaded again and styled in memory
LoadAndFormat ==
    /\ pc = "load_workbook"
    /\ pc' = "save"
    /\ UNCHANGED <<inputVars, calcVars, inventory, k, previous, raw, mappingVars,
                   exportVars>>

\* line 265: wb.save(full_path) replaces the file by the styled workbook
SaveWorkbook ==
    /\ pc = "save"
    /\ report_file' = "formatted"
    /\ pc' = "exported"
    /\ UNCHANGED <<inputVars, calcVars, inventory, k, previous, raw, mappingVars,
                   exit_code>>

\* line 286, and the end of the script: the process ends with status 0
ExitSuccess ==
    /\ pc = "exported"
    /\ exit_code' = <<0>>
    /\ pc' = "exited"
    /\ UNCHANGED <<inputVars, calcVars, inventory, k, previous, raw, mappingVars,
                   report_file>>

RunningSteps == {"fetch", "clean", "init_stock", "roll", "returned", "exclude",
                 "one_to_one", "many_to_one", "resolved", "load_workbook", "save"}

\* the step about to run raises (database, mapping file, pandas, openpyxl,
\* file system); the except clauses of lines 45, 149, 269 log and re-raise.
\* Nothing the step would have written is written.
Raise ==
    /\ pc \in RunningSteps
    /\ pc' = "raised"
    /\ UNCHANGED <<inputVars, calcVars, inventory, k, previous, raw, mappingVars,
                   exportVars>>

\* lines 287-289 and 306-308: logging.error, sys.exit(1)
ExitFailure ==
    /\ pc = "raised"
    /\ exit_code' = <<1>>
    /\ pc' = "exited"
    /\ UNCHANGED <<inputVars, calcVars, inventory, k, previous, raw, mappingVars,
                   report_file>>

NextRun ==
    \/ Fetch
    \/ Clean
    \/ SetInitialStock
    \/ AggregateMovements
    \/ RollForward
    \/ Return
    \/ ReadMapping
    \/ ExcludeStep
    \/ ExcludeDone
    \/ OneToOneStep
    \/ OneToOneDone
    \/ ManyToOneStep
    \/ ManyToOneDone
    \/ WriteSheet
    \/ LoadAndFormat
    \/ SaveWorkbook
    \/ ExitSuccess
    \/ Raise
    \/ ExitFailure

SpecRun == InitRun /\ [][NextRun]_vars

\* C4: a run in which a step failed ends with a non-zero status and has
\* written no report file; a report file exists only for a run that ends
\* with status 0.
C4_FailedRunLeavesNoReport ==
    /\ pc = "raised" => report_file = "absent"
    /\ pc = "exited" => (exit_code # <<0>> <=> report_file = "absent")

=============================================================================
